---- MODULE Spec2Model ----
(***************************************************************************)
(* Campus energy dashboard (src/energy_dashboard.py): ingestion of the     *)
(* per-building CSV files, the daily / weekly / building-wise aggregates,  *)
(* the Building / BuildingManager reading store, the dashboard figure and  *)
(* the export of the result files, as one run of main().                   *)
(***************************************************************************)
EXTENDS Integers, Sequences, FiniteSets

VARIABLES
    dir_exists,         \* DATA_DIR.exists()
    dir,                \* the CSV files of DATA_DIR, in data_dir.glob order
    pc,                 \* position of the run
    error,              \* the exception that ended the run, "" if none
    df_combined,        \* main: df_combined
    daily_totals,       \* main: daily_totals
    weekly_aggregates,  \* main: weekly_aggregates
    building_summary,   \* main: building_summary
    manager,            \* BuildingManager.buildings, in dict (insertion) order
    reports_df,         \* main: reports_df
    artifacts,          \* files written below OUTPUT_DIR
    summary,            \* the campus-level values export_results reports
    bld,                \* a Building held directly by a client of the store
    bld_report          \* the result of bld.generate_report()

vars == <<dir_exists, dir, pc, error, df_combined, daily_totals,
          weekly_aggregates, building_summary, manager, reports_df,
          artifacts, summary, bld, bld_report>>

-----------------------------------------------------------------------------
(* Bounds of the model. *)

\* rows in all files of the directory together
MaxRows == 3

\* readings a client adds to a Building of its own
MaxReadings == 2

-----------------------------------------------------------------------------
(* Calendar of pandas timestamps, in hours since 1970-01-01 00:00. *)

HoursPerDay == 24
DaysPerWeek == 7
\* 1970-01-01 is a Thursday (Monday = 0)
EpochWeekday == 3
\* resample("W") is W-SUN: weeks end on Sunday (Monday = 0)
WeekEndDay == 6

DayOf(t) == t \div HoursPerDay

\* label of the resample("D") bin of t: midnight of its day
DayBin(t) == DayOf(t) * HoursPerDay

Weekday(d) == (d + EpochWeekday) % DaysPerWeek

\* label of the resample("W") bin of t: midnight of the Sunday on or after
\* its day (bins closed and labelled on the right, a Sunday's own readings
\* included)
WeekBin(t) == (DayOf(t) + (WeekEndDay - Weekday(DayOf(t)))) * HoursPerDay

\* the bin of t under resample(rule), and the hours from one bin to the next
BinOf(rule, t) == IF rule = "D" THEN DayBin(t) ELSE WeekBin(t)

StepOf(rule) == IF rule = "D" THEN HoursPerDay ELSE HoursPerDay * DaysPerWeek

-----------------------------------------------------------------------------
(* Sequences. *)

Range(s) == {s[i] : i \in DOMAIN s}

RECURSIVE SumSeq(_)
SumSeq(s) == IF s = <<>> THEN 0 ELSE s[1] + SumSeq(Tail(s))

RECURSIVE Concat(_)
Concat(ss) == IF ss = <<>> THEN <<>> ELSE ss[1] \o Concat(Tail(ss))

RECURSIVE SelectSeqIdx(_, _)
\* the subsequence of s at the ascending indices of set I
SelectSeqIdx(s, I) ==
    IF I = {} THEN <<>>
    ELSE LET m == CHOOSE i \in I : \A j \in I : i <= j
         IN  <<s[m]>> \o SelectSeqIdx(s, I \ {m})

Filter(s, I) == SelectSeqIdx(s, I)

Perms(n) == {p \in [1..n -> 1..n] : \A i, j \in 1..n : i # j => p[i] # p[j]}

Min(S) == CHOOSE x \in S : \A y \in S : x <= y
Max(S) == CHOOSE x \in S : \A y \in S : x >= y

RECURSIVE Gcd(_, _)
Gcd(a, b) == IF b = 0 THEN a ELSE Gcd(b, a % b)

-----------------------------------------------------------------------------
(* Floats of the statistics: a rational, or NaN. *)

NaN == [nan |-> TRUE, num |-> 0, den |-> 1]

Float(n, d) == [nan |-> FALSE, num |-> n \div Gcd(n, d), den |-> d \div Gcd(n, d)]

-----------------------------------------------------------------------------
(* File names and building names: building_name =                          *)
(* file.stem.replace("_", " ").title()                                     *)

UpperOf(c) == CASE c = "a" -> "A" [] c = "b" -> "B" [] OTHER -> c
LowerOf(c) == CASE c = "A" -> "a" [] c = "B" -> "b" [] OTHER -> c
IsLetter(c) == c \in {"a", "b", "A", "B"}

\* str.replace("_", " ")
ReplaceUnderscore(s) == [i \in DOMAIN s |-> IF s[i] = "_" THEN " " ELSE s[i]]

\* str.title(): a letter that follows no letter is upper-cased, every other
\* letter lower-cased
Title(s) ==
    [i \in DOMAIN s |->
        IF i = 1 \/ ~IsLetter(s[i - 1]) THEN UpperOf(s[i]) ELSE LowerOf(s[i])]

BuildingName(stem) == Title(ReplaceUnderscore(stem))

\* code points, for the order of strings
Ord(c) == CASE c = " " -> 32 [] c = "A" -> 65 [] c = "B" -> 66
            [] c = "_" -> 95 [] c = "a" -> 97 [] c = "b" -> 98

RECURSIVE StrLess(_, _)
StrLess(s, t) ==
    IF t = <<>> THEN FALSE
    ELSE IF s = <<>> THEN TRUE
    ELSE IF s[1] # t[1] THEN Ord(s[1]) < Ord(t[1])
    ELSE StrLess(Tail(s), Tail(t))

RECURSIVE SortNames(_)
\* the keys of a groupby, which sorts them
SortNames(S) ==
    IF S = {} THEN <<>>
    ELSE LET m == CHOOSE x \in S : \A y \in S \ {x} : StrLess(x, y)
         IN  <<m>> \o SortNames(S \ {m})

-----------------------------------------------------------------------------
(* The input: the text of the CSV files.                                   *)

\* a timestamp field that pandas cannot parse, and the NaT it becomes
BadDate == <<>>
NaT == -1

\* a kwh field: a number, a text that is no number, or an empty field
NumText(n) == [k |-> "num", v |-> n]
JunkText == [k |-> "junk", v |-> 0]
EmptyText == [k |-> "null", v |-> 0]

\* the timestamp fields <<day, hour>> and the kwh values of the input files
\* Sunday 1970-01-04 06:00 and Friday 1970-01-16 00:00: eleven days and one
\* whole week lie between them
DateTexts == {<<3, 6>>, <<15, 0>>}
KwhVals == {1, 2}

RawRows ==
    {[timestamp |-> d, kwh |-> NumText(n)] : d \in DateTexts, n \in KwhVals}
    \cup {[timestamp |-> BadDate, kwh |-> NumText(1)],
          [timestamp |-> <<3, 6>>, kwh |-> EmptyText],
          [timestamp |-> <<3, 6>>, kwh |-> JunkText]}

\* the files a_b.csv and b.csv
Stems == {<<"a", "_", "b">>, <<"b">>}

\* the orders in which data_dir.glob("*.csv") may yield files of these names
StemOrders ==
    UNION {{o \in [1..n -> Stems] : \A i, j \in 1..n : i # j => o[i] # o[j]} :
           n \in 0..Cardinality(Stems)}

\* a file is a table with both columns, a table without the kwh column, or
\* raises when read
FileKinds == {"table", "no_kwh", "unreadable"}

MakeFile(stem, kind, rows) ==
    [stem |-> stem,
     columns |-> IF kind = "no_kwh" THEN {"timestamp"} ELSE {"timestamp", "kwh"},
     readable |-> kind # "unreadable",
     rows |-> IF kind = "table" THEN rows ELSE <<>>]

\* ends[i] is the number of rows the first i files hold together, k in all
\* files; only a table holds rows
SplitsRows(kinds, ends, k) ==
    /\ \A i \in DOMAIN ends :
          LET before == IF i = 1 THEN 0 ELSE ends[i - 1]
          IN  /\ before <= ends[i]
              /\ kinds[i] # "table" => ends[i] = before
    /\ IF Len(ends) = 0 THEN k = 0 ELSE ends[Len(ends)] = k

\* the directory of the files named order[i], of kinds[i], that hold the rows
\* all, the first ends[1] in the first file and so on
MakeDir(order, kinds, ends, all) ==
    IF order = <<>> THEN <<>>
    ELSE [i \in 1..Len(order) |->
             MakeFile(order[i], kinds[i],
                      SubSeq(all, (IF i = 1 THEN 0 ELSE ends[i - 1]) + 1,
                             ends[i]))]

-----------------------------------------------------------------------------
(* TASK 1: load_energy_data                                                *)

\* pd.to_datetime(errors="coerce") of one field
ToDatetime(d) == IF Len(d) = 2 THEN d[1] * HoursPerDay + d[2] ELSE NaT

\* pd.read_csv's kwh column: float64 when every field is a number or empty,
\* else object, the numbers kept as text
ReadKwh(rows, i) ==
    IF \E j \in DOMAIN rows : rows[j].kwh.k = "junk"
    THEN IF rows[i].kwh.k = "num" THEN [k |-> "str", v |-> rows[i].kwh.v]
         ELSE rows[i].kwh
    ELSE rows[i].kwh

ReadCsv(file) ==
    [i \in DOMAIN file.rows |->
        [timestamp |-> ToDatetime(file.rows[i].timestamp),
         kwh |-> ReadKwh(file.rows, i)]]

\* df.dropna(subset=["timestamp", "kwh"])
DropNa(rows) ==
    Filter(rows, {i \in DOMAIN rows :
                     rows[i].timestamp # NaT /\ rows[i].kwh.k # "null"})

\* the frame one file adds to all_frames (lines 106-112)
FileFrame(file) ==
    LET kept == DropNa(ReadCsv(file))
    IN  [i \in DOMAIN kept |->
            [building |-> BuildingName(file.stem),
             timestamp |-> kept[i].timestamp,
             kwh |-> kept[i].kwh]]

\* whether the loop appends a frame for the file: it was read and has both
\* required columns
FileLoaded(file) ==
    file.readable /\ "timestamp" \in file.columns /\ "kwh" \in file.columns

RECURSIVE AllFrames(_)
\* all_frames after the loop over data_dir.glob("*.csv")
AllFrames(d) ==
    IF d = <<>> THEN <<>>
    ELSE (IF FileLoaded(d[1]) THEN <<FileFrame(d[1])>> ELSE <<>>)
         \o AllFrames(Tail(d))

\* pd.concat(all_frames, ignore_index=True)
ConcatFrames(frames) ==
    LET rows == Concat(frames)
    IN  [i \in DOMAIN rows |->
            [index |-> i - 1, building |-> rows[i].building,
             timestamp |-> rows[i].timestamp, kwh |-> rows[i].kwh]]

\* the value of column by in row r
KeyOf(by, r) == IF by = "timestamp" THEN r.timestamp ELSE r.total_kwh.num

\* the orders sort_values(by, ascending) may leave the rows in: pandas sorts
\* with kind="quicksort", which keeps no order among equal keys
SortedOrders(s, by, ascending) ==
    {[i \in DOMAIN s |-> s[p[i]]] :
        p \in {q \in Perms(Len(s)) :
                  \A i \in 1..(Len(s) - 1) :
                      IF ascending
                      THEN KeyOf(by, s[q[i]]) <= KeyOf(by, s[q[i + 1]])
                      ELSE KeyOf(by, s[q[i]]) >= KeyOf(by, s[q[i + 1]])}}

\* a sort that was left out
SortValuesMissing(rows) == {rows}

\* df_combined.sort_values("timestamp", inplace=True)
SortValues(rows) == SortedOrders(rows, "timestamp", TRUE)

\* every kwh of the frame is a float
Numeric(df) == \A i \in DOMAIN df : df[i].kwh.k = "num"

-----------------------------------------------------------------------------
(* TASK 2: the aggregations                                                *)

Buildings(df) == {df[i].building : i \in DOMAIN df}

\* the rows of one building, in the order of df (one group of the groupby)
Group(df, b) == Filter(df, {i \in DOMAIN df : df[i].building = b})

KwhList(g) == [i \in DOMAIN g |-> g[i].kwh.v]

\* a bin that keeps its first reading only
BinSumFirst(g, rule, bin) ==
    LET I == {i \in DOMAIN g : BinOf(rule, g[i].timestamp) = bin}
    IN  IF I = {} THEN 0 ELSE g[Min(I)].kwh.v

\* .sum() of one bin: the kwh of the group's readings that fall in it,
\* 0 for a bin that holds none
BinSum(g, rule, bin) ==
    SumSeq(KwhList(Filter(g, {i \in DOMAIN g :
                                 BinOf(rule, g[i].timestamp) = bin})))

\* bins of the readings only
BinLabelsNoFill(g, rule) == {BinOf(rule, g[i].timestamp) : i \in DOMAIN g}

\* .resample(rule): every bin from the one of the group's first reading to
\* the one of its last
BinLabels(g, rule) ==
    LET used == {BinOf(rule, g[i].timestamp) : i \in DOMAIN g}
    IN  {b \in Min(used)..Max(used) : (b - Min(used)) % StepOf(rule) = 0}

RECURSIVE SetToSeq(_)
\* a set of numbers in ascending order
SetToSeq(S) == IF S = {} THEN <<>> ELSE <<Min(S)>> \o SetToSeq(S \ {Min(S)})

\* df.groupby("building")["kwh"].resample(rule).sum().reset_index()
Resample(df, rule) ==
    LET names == SortNames(Buildings(df))
        part(b) ==
            LET g == Group(df, b)
                bins == SetToSeq(BinLabels(g, rule))
            IN  [i \in DOMAIN bins |->
                    [building |-> b, timestamp |-> bins[i],
                     kwh |-> BinSum(g, rule, bins[i])]]
    IN  Concat([n \in DOMAIN names |-> part(names[n])])

\* An empty frame resamples to an empty Series whose index is the time index
\* alone: reset_index() then yields no "building" column.
ResampleColumns(df, value) ==
    IF df = <<>> THEN {"timestamp", value} ELSE {"building", "timestamp", value}

calculate_daily_totals(df) ==
    LET t == Resample(df, "D")
    IN  [columns |-> ResampleColumns(df, "daily_kwh"),
         rows |-> [i \in DOMAIN t |->
                      [building |-> t[i].building, timestamp |-> t[i].timestamp,
                       daily_kwh |-> t[i].kwh]]]

calculate_weekly_aggregates(df) ==
    LET t == Resample(df, "W")
    IN  [columns |-> ResampleColumns(df, "weekly_kwh"),
         rows |-> [i \in DOMAIN t |->
                      [building |-> t[i].building, timestamp |-> t[i].timestamp,
                       weekly_kwh |-> t[i].kwh]]]

\* mean, min, max and sum of a list of kwh; of no values pandas gives
\* sum 0 and NaN for the rest
Stats(name, vals) ==
    [building |-> name,
     total_kwh |-> Float(SumSeq(vals), 1),
     mean_kwh |-> IF vals = <<>> THEN NaN ELSE Float(SumSeq(vals), Len(vals)),
     min_kwh |-> IF vals = <<>> THEN NaN ELSE Float(Min(Range(vals)), 1),
     max_kwh |-> IF vals = <<>> THEN NaN ELSE Float(Max(Range(vals)), 1)]

\* df.groupby("building")["kwh"].agg(["mean", "min", "max", "sum"])
building_wise_summary(df) ==
    LET names == SortNames(Buildings(df))
    IN  [columns |-> {"building", "mean_kwh", "min_kwh", "max_kwh", "total_kwh"},
         rows |-> [n \in DOMAIN names |->
                      Stats(names[n], KwhList(Group(df, names[n])))]]

-----------------------------------------------------------------------------
(* TASK 3: the reading store                                               *)

\* Building(name)
Building(name) == [name |-> name, meter_readings |-> <<>>]

\* MeterReading(timestamp, kwh)
MeterReading(t, k) == [timestamp |-> t, kwh |-> k]

add_reading(b, reading) ==
    [b EXCEPT !.meter_readings = Append(@, reading)]

\* a report that fails for a building without readings
generate_report_raising(b) ==
    IF b.meter_readings = <<>> THEN [raised |-> "EmptyBuildingError"]
    ELSE Stats(b.name, [i \in DOMAIN b.meter_readings |->
                           b.meter_readings[i].kwh.v])

\* Building.generate_report
generate_report(b) ==
    Stats(b.name, [i \in DOMAIN b.meter_readings |-> b.meter_readings[i].kwh.v])

HasBuilding(m, name) == \E i \in DOMAIN m : m[i].name = name

\* a building created anew for every row
get_or_create_always_new(m, name) ==
    IF HasBuilding(m, name)
    THEN [i \in DOMAIN m |-> IF m[i].name = name THEN Building(name) ELSE m[i]]
    ELSE Append(m, Building(name))

\* BuildingManager.get_or_create_building: the manager afterwards
get_or_create_building(m, name) ==
    IF HasBuilding(m, name) THEN m ELSE Append(m, Building(name))

RECURSIVE from_dataframe(_, _)
\* BuildingManager.from_dataframe
from_dataframe(m, df) ==
    IF df = <<>> THEN m
    ELSE LET row == df[1]
             m1 == get_or_create_building(m, row.building)
             m2 == [i \in DOMAIN m1 |->
                       IF m1[i].name = row.building
                       THEN add_reading(m1[i],
                                        MeterReading(row.timestamp, row.kwh))
                       ELSE m1[i]]
         IN  from_dataframe(m2, Tail(df))

\* BuildingManager.generate_all_reports
generate_all_reports(m) == [i \in DOMAIN m |-> generate_report(m[i])]

-----------------------------------------------------------------------------
(* TASK 5: the campus-level values of export_results                       *)

\* the summary sorted the wrong way round
HighestCandidatesAscending(rows) ==
    {o[1] : o \in SortedOrders(rows, "total_kwh", TRUE)}

\* building_summary.sort_values("total_kwh", ascending=False).iloc[0]
HighestCandidates(rows) ==
    {o[1] : o \in SortedOrders(rows, "total_kwh", FALSE)}

\* df_clean.loc[df_clean["kwh"].idxmax()]: the first row holding the maximum
PeakRow(df) ==
    LET top == Max({df[i].kwh.v : i \in DOMAIN df})
    IN  df[Min({i \in DOMAIN df : df[i].kwh.v = top})]

\* Series.mean() of a column
MeanOf(vals) == IF vals = <<>> THEN NaN ELSE Float(SumSeq(vals), Len(vals))

AllArtifacts ==
    {"dashboard.png", "cleaned_energy_data.csv", "building_summary.csv",
     "summary.txt"}

-----------------------------------------------------------------------------
(* The run of main()                                                       *)

NoTable == [columns |-> {}, rows |-> <<>>]
NoReport == [none |-> TRUE]

InitRun ==
    /\ error = ""
    /\ df_combined = <<>>
    /\ daily_totals = NoTable
    /\ weekly_aggregates = NoTable
    /\ building_summary = NoTable
    /\ manager = <<>>
    /\ reports_df = <<>>
    /\ artifacts = {}
    /\ summary = <<>>
    /\ bld = Building(BuildingName(<<"b">>))
    /\ bld_report = NoReport

Init ==
    /\ pc = "start"
    /\ InitRun
    /\ \/ /\ dir_exists = FALSE
          /\ dir = <<>>
       \/ /\ dir_exists = TRUE
          /\ \E order \in StemOrders :
                \E kinds \in [1..Len(order) -> FileKinds] :
                   \E k \in 0..MaxRows :
                      \E ends \in [1..Len(order) -> 0..k] :
                         /\ SplitsRows(kinds, ends, k)
                         /\ \E all \in [1..k -> RawRows] :
                               dir = MakeDir(order, kinds, ends, all)

Fail(e) ==
    /\ pc' = "failed"
    /\ error' = e

\* load_energy_data, lines 92-94: the directory does not exist
LoadDirMissing ==
    /\ pc = "start"
    /\ ~dir_exists
    /\ Fail("FileNotFoundError")
    /\ UNCHANGED <<dir_exists, dir, df_combined, daily_totals,
                   weekly_aggregates, building_summary, manager, reports_df,
                   artifacts, summary, bld, bld_report>>

\* load_energy_data, lines 96-119: no file added a frame
LoadNoFrames ==
    /\ pc = "start"
    /\ dir_exists
    /\ AllFrames(dir) = <<>>
    /\ Fail("ValueError")
    /\ UNCHANGED <<dir_exists, dir, df_combined, daily_totals,
                   weekly_aggregates, building_summary, manager, reports_df,
                   artifacts, summary, bld, bld_report>>

\* load_energy_data, lines 96-124: the frames are concatenated and sorted
LoadOk ==
    /\ pc = "start"
    /\ dir_exists
    /\ AllFrames(dir) # <<>>
    /\ df_combined' \in SortValues(ConcatFrames(AllFrames(dir)))
    /\ pc' = "loaded"
    /\ UNCHANGED <<dir_exists, dir, error, daily_totals, weekly_aggregates,
                   building_summary, manager, reports_df, artifacts, summary,
                   bld, bld_report>>

\* main, lines 291-293, on a kwh column of text: the mean of
\* building_wise_summary cannot be taken (the sums may fail before it)
AggregateFails ==
    /\ pc = "loaded"
    /\ ~Numeric(df_combined)
    /\ Fail("TypeError")
    /\ UNCHANGED <<dir_exists, dir, df_combined, daily_totals,
                   weekly_aggregates, building_summary, manager, reports_df,
                   artifacts, summary, bld, bld_report>>

\* main, lines 291-293
Aggregate ==
    /\ pc = "loaded"
    /\ Numeric(df_combined)
    /\ daily_totals' = calculate_daily_totals(df_combined)
    /\ weekly_aggregates' = calculate_weekly_aggregates(df_combined)
    /\ building_summary' = building_wise_summary(df_combined)
    /\ pc' = "aggregated"
    /\ UNCHANGED <<dir_exists, dir, error, df_combined, manager, reports_df,
                   artifacts, summary, bld, bld_report>>

\* main, lines 296-300
OopReports ==
    /\ pc = "aggregated"
    /\ manager' = from_dataframe(<<>>, df_combined)
    /\ reports_df' = generate_all_reports(manager')
    /\ pc' = "reported"
    /\ UNCHANGED <<dir_exists, dir, error, df_combined, daily_totals,
                   weekly_aggregates, building_summary, artifacts, summary,
                   bld, bld_report>>

\* create_dashboard_figure, line 176: daily has no "building" column
FigureFails ==
    /\ pc = "reported"
    /\ "building" \notin daily_totals.columns
    /\ Fail("KeyError")
    /\ UNCHANGED <<dir_exists, dir, df_combined, daily_totals,
                   weekly_aggregates, building_summary, manager, reports_df,
                   artifacts, summary, bld, bld_report>>

\* create_dashboard_figure: fig.savefig(out_path)
Figure ==
    /\ pc = "reported"
    /\ "building" \in daily_totals.columns
    /\ artifacts' = artifacts \cup {"dashboard.png"}
    /\ pc' = "figure_saved"
    /\ UNCHANGED <<dir_exists, dir, error, df_combined, daily_totals,
                   weekly_aggregates, building_summary, manager, reports_df,
                   summary, bld, bld_report>>

\* export_results, lines 234-241: the two tables are written
ExportTables ==
    /\ pc = "figure_saved"
    /\ artifacts' = artifacts \cup {"cleaned_energy_data.csv",
                                    "building_summary.csv"}
    /\ pc' = "tables_saved"
    /\ UNCHANGED <<dir_exists, dir, error, df_combined, daily_totals,
                   weekly_aggregates, building_summary, manager, reports_df,
                   summary, bld, bld_report>>

\* export_results, lines 244-280: the campus summary; .iloc[0] of an empty
\* summary raises
ExportSummary ==
    /\ pc = "tables_saved"
    /\ IF building_summary.rows = <<>>
       THEN /\ Fail("IndexError")
            /\ UNCHANGED <<artifacts, summary>>
       ELSE /\ \E top \in HighestCandidates(building_summary.rows) :
                 summary' =
                     [total_campus_kwh |-> SumSeq(KwhList(df_combined)),
                      highest_building |-> top.building,
                      highest_total |-> top.total_kwh,
                      peak_timestamp |-> PeakRow(df_combined).timestamp,
                      peak_kwh |-> PeakRow(df_combined).kwh.v,
                      daily_mean |->
                          MeanOf([i \in DOMAIN daily_totals.rows |->
                                     daily_totals.rows[i].daily_kwh]),
                      weekly_mean |->
                          MeanOf([i \in DOMAIN weekly_aggregates.rows |->
                                     weekly_aggregates.rows[i].weekly_kwh])]
            /\ artifacts' = artifacts \cup {"summary.txt"}
            /\ pc' = "done"
            /\ error' = error
    /\ UNCHANGED <<dir_exists, dir, df_combined, daily_totals,
                   weekly_aggregates, building_summary, manager, reports_df,
                   bld, bld_report>>

Next ==
    \/ LoadDirMissing
    \/ LoadNoFrames
    \/ LoadOk
    \/ AggregateFails
    \/ Aggregate
    \/ OopReports
    \/ FigureFails
    \/ Figure
    \/ ExportTables
    \/ ExportSummary

Spec == Init /\ [][Next]_vars

-----------------------------------------------------------------------------
(* The reading store used on its own: a client fills a manager from frames, *)
(* builds a Building of its own and asks for its report.                    *)

StoreRows ==
    {[building |-> BuildingName(st), timestamp |-> ToDatetime(<<3, 6>>),
      kwh |-> NumText(n)] : st \in Stems, n \in KwhVals}

StoreFrames == UNION {[1..k -> StoreRows] : k \in 0..MaxRows}

RECURSIVE Stored(_)
\* the readings a manager holds
Stored(m) ==
    IF m = <<>> THEN 0 ELSE Len(m[1].meter_readings) + Stored(Tail(m))

InitStore ==
    /\ dir_exists = TRUE
    /\ dir = <<>>
    /\ pc = "store"
    /\ InitRun

\* manager.from_dataframe(df)
StoreFromDataframe ==
    /\ pc = "store"
    /\ \E df \in StoreFrames :
          /\ Stored(manager) + Len(df) <= MaxRows
          /\ manager' = from_dataframe(manager, df)
    /\ UNCHANGED <<dir_exists, dir, pc, error, df_combined, daily_totals,
                   weekly_aggregates, building_summary, reports_df, artifacts,
                   summary, bld, bld_report>>

\* manager.generate_all_reports()
StoreGenerateAllReports ==
    /\ pc = "store"
    /\ reports_df' = generate_all_reports(manager)
    /\ UNCHANGED <<dir_exists, dir, pc, error, df_combined, daily_totals,
                   weekly_aggregates, building_summary, manager, artifacts,
                   summary, bld, bld_report>>

\* bld.add_reading(MeterReading(t, kwh))
StoreAddReading ==
    /\ pc = "store"
    /\ Len(bld.meter_readings) < MaxReadings
    /\ \E n \in KwhVals :
          bld' = add_reading(bld, MeterReading(ToDatetime(<<3, 6>>), NumText(n)))
    /\ UNCHANGED <<dir_exists, dir, pc, error, df_combined, daily_totals,
                   weekly_aggregates, building_summary, manager, reports_df,
                   artifacts, summary, bld_report>>

\* bld.generate_report(), the client's last call
StoreGenerateReport ==
    /\ pc = "store"
    /\ bld_report' = generate_report(bld)
    /\ pc' = "client_done"
    /\ UNCHANGED <<dir_exists, dir, error, df_combined, daily_totals,
                   weekly_aggregates, building_summary, manager, reports_df,
                   artifacts, summary, bld>>

NextStore ==
    \/ StoreFromDataframe
    \/ StoreGenerateAllReports
    \/ StoreAddReading
    \/ StoreGenerateReport

SpecStore == InitStore /\ [][NextStore]_vars

-----------------------------------------------------------------------------
(* Properties of the ingestion                                             *)

\* load_energy_data has returned a Merged Dataset
LoadReturned == pc \notin {"start", "store", "client_done"}
                /\ error \notin {"FileNotFoundError", "ValueError"}

\* load_energy_data has raised
LoadRaised == pc = "failed" /\ error \in {"FileNotFoundError", "ValueError"}

\* a row of the input that is valid: its timestamp parses and its kwh is a
\* number
ValidRaw(r) == ToDatetime(r.timestamp) # NaT /\ r.kwh.k = "num"

ValidCount(file) ==
    Cardinality({i \in DOMAIN file.rows : ValidRaw(file.rows[i])})

HasJunk(file) == \E i \in DOMAIN file.rows : file.rows[i].kwh.k = "junk"

\* no file of the directory contributes a row that survives the validation
NoUsableRows(d) ==
    \A i \in DOMAIN d : ~FileLoaded(d[i]) \/ FileFrame(d[i]) = <<>>

\* C1: whenever no CSV file of an existing directory contributes a row that
\* survives validation, load_energy_data raises the "no valid data" error
\* instead of returning a Merged Dataset.
C1_NoUsableRowsRaises ==
    (pc # "start" /\ dir_exists /\ NoUsableRows(dir))
        => (pc = "failed" /\ error = "ValueError")

RECURSIVE ExpectedRows(_, _)
\* the valid rows the files of building b hold together
ExpectedRows(d, b) ==
    IF d = <<>> THEN 0
    ELSE (IF BuildingName(d[1].stem) = b /\ FileLoaded(d[1])
          THEN ValidCount(d[1]) ELSE 0)
         + ExpectedRows(Tail(d), b)

\* C2: a file with a row of non-numeric kwh does not abort the load; the
\* Merged Dataset holds every other valid row of the file and not that row,
\* and a file without the kwh column contributes no row.
C2_SkipSemantics ==
    (pc # "start" /\ dir_exists /\ \E i \in DOMAIN dir : HasJunk(dir[i]))
        => /\ ~LoadRaised
           /\ \A i \in DOMAIN df_combined : df_combined[i].kwh.k # "junk"
           /\ \A st \in Stems :
                 Len(Group(df_combined, BuildingName(st)))
                     = ExpectedRows(dir, BuildingName(st))

Sorted(df) ==
    \A i \in 1..(Len(df) - 1) : df[i].timestamp <= df[i + 1].timestamp

\* C6: in every Merged Dataset load_energy_data returns, adjacent rows have
\* timestamps t1 <= t2, whatever the number of files, their order and the
\* order of their rows.
C6_SortInvariant == LoadReturned => Sorted(df_combined)

\* C6 witness: a dataset of two files was returned whose concatenation was
\* not in timestamp order.
C6_Witness ==
    /\ LoadReturned
    /\ Len(AllFrames(dir)) >= 2
    /\ ~Sorted(ConcatFrames(AllFrames(dir)))

\* C9: the final sort is stable: rows of equal timestamp keep the relative
\* order they have in the concatenation of the per-file frames.
C9_StableSort ==
    LoadReturned =>
        \A i, j \in DOMAIN df_combined :
            (i < j /\ df_combined[i].timestamp = df_combined[j].timestamp)
                => df_combined[i].index < df_combined[j].index

-----------------------------------------------------------------------------
(* Properties of the aggregations                                          *)

\* the three tables of Task 2 have been computed
Aggregated == pc \in {"aggregated", "reported", "figure_saved",
                      "tables_saved", "done"}
              \/ (pc = "failed" /\ error \in {"KeyError", "IndexError"})

\* building b has a reading in the bin labelled t of resample(rule)
HasReading(b, rule, t) ==
    \E i \in DOMAIN df_combined :
        /\ df_combined[i].building = b
        /\ BinOf(rule, df_combined[i].timestamp) = t

OwnBins(b, rule) ==
    {BinOf(rule, df_combined[i].timestamp) :
        i \in {j \in DOMAIN df_combined : df_combined[j].building = b}}

\* the (building, period) pairs resampling covers: for each building, every
\* period from the one of its first reading to the one of its last
Covered(rule) ==
    UNION {{<<b, Min(OwnBins(b, rule)) + k * StepOf(rule)>> :
               k \in 0..((Max(OwnBins(b, rule)) - Min(OwnBins(b, rule)))
                            \div StepOf(rule))} :
           b \in Buildings(df_combined)}

DailySum(b) ==
    SumSeq([i \in DOMAIN daily_totals.rows |->
               IF daily_totals.rows[i].building = b
               THEN daily_totals.rows[i].daily_kwh ELSE 0])

WeeklySum(b) ==
    SumSeq([i \in DOMAIN weekly_aggregates.rows |->
               IF weekly_aggregates.rows[i].building = b
               THEN weekly_aggregates.rows[i].weekly_kwh ELSE 0])

SummaryRow(b) ==
    building_summary.rows[
        CHOOSE i \in DOMAIN building_summary.rows :
            building_summary.rows[i].building = b]

\* C4: for every building of the Merged Dataset, the sum of its daily totals
\* equals the sum of its weekly totals equals its total_kwh in the
\* building-wise summary.
C4_Conservation ==
    Aggregated =>
        \A b \in Buildings(df_combined) :
            /\ \E i \in DOMAIN building_summary.rows :
                  building_summary.rows[i].building = b
            /\ Float(DailySum(b), 1) = SummaryRow(b).total_kwh
            /\ Float(WeeklySum(b), 1) = SummaryRow(b).total_kwh

\* C4 witness: a building has two readings in different weeks, so that its
\* daily and weekly totals hold several rows each.
C4_Witness ==
    /\ Aggregated
    /\ \E i, j \in DOMAIN df_combined :
          /\ df_combined[i].building = df_combined[j].building
          /\ WeekBin(df_combined[i].timestamp) # WeekBin(df_combined[j].timestamp)
    /\ Len(weekly_aggregates.rows) >= 2

-----------------------------------------------------------------------------
(* Properties of the reading store                                         *)

Reported == pc \in {"reported", "figure_saved", "tables_saved", "done"}
            \/ (pc = "failed" /\ error \in {"KeyError", "IndexError"})

-----------------------------------------------------------------------------
(* Properties of the run and of the export                                 *)

\* a file of the directory was skipped, and another holds a valid row
PartiallyDegraded ==
    /\ \E i \in DOMAIN dir : ~FileLoaded(dir[i])
    /\ \E i \in DOMAIN dir : FileLoaded(dir[i]) /\ ValidCount(dir[i]) > 0

\* C7: a run that ends with an error has written none of the four result
\* files, and a run in which only some files were skipped writes all four.
C7_FailedRunWritesNothing ==
    /\ pc = "failed" => artifacts = {}
    /\ (pc \in {"failed", "done"} /\ dir_exists /\ PartiallyDegraded)
           => artifacts = AllArtifacts

MaxTotal == Max({building_summary.rows[i].total_kwh.num :
                    i \in DOMAIN building_summary.rows})

\* C10: the highest-consuming building export_results reports is a summary
\* row of maximum total_kwh, and on a tie the first such row in the order of
\* building_wise_summary.
C10_HighestFirstOnTie ==
    pc = "done" =>
        summary.highest_building =
            building_summary.rows[
                Min({i \in DOMAIN building_summary.rows :
                        building_summary.rows[i].total_kwh.num = MaxTotal})].building

\* C10 as amended: the highest-consuming building export_results reports is
\* a summary row of maximum total_kwh; on a tie it is one of the rows of
\* maximum total_kwh, and which one is not fixed.
C10_HighestHasMaxTotal ==
    pc = "done" =>
        /\ summary.highest_total = Float(MaxTotal, 1)
        /\ \E i \in DOMAIN building_summary.rows :
              /\ building_summary.rows[i].building = summary.highest_building
              /\ building_summary.rows[i].total_kwh.num = MaxTotal

\* C10 witness: two buildings share the maximum total_kwh and the later one
\* in the order of building_wise_summary is the one reported.
C10_Witness ==
    /\ pc = "done"
    /\ Len(building_summary.rows) = 2
    /\ building_summary.rows[1].total_kwh.num = building_summary.rows[2].total_kwh.num
    /\ summary.highest_building = building_summary.rows[2].building

====
